---- MODULE Spec2Model ----
(***************************************************************************)
(* Model of the flocking update of boids-bevy (src/src/main.rs): the       *)
(* neighbour classification, the steering forces, the goal seeking with    *)
(* arrival, the integrator and the border repulsion, as the chained Update *)
(* systems run them.                                                       *)
(*                                                                         *)
(* Numbers.  The program computes in f32.  The model computes in fixed     *)
(* point over the integers: a length, a speed or a force r is the integer  *)
(* r * Scale, a dimensionless quantity (a unit vector's component, a       *)
(* cosine, a ratio) is the integer r * One, an angle is in milliradians    *)
(* and a time is a whole number of 1/TimeDen seconds.  Every division      *)
(* rounds toward zero and every square root used as a divisor rounds up,   *)
(* so a rounding never lengthens a vector: the model is the program over   *)
(* the reals, sampled on a grid.  The rounding of f32 itself (a result one *)
(* unit in the last place above the real one) is not modelled.             *)
(***************************************************************************)
EXTENDS Integers, Sequences, FiniteSets, TLC

VARIABLES
    boids,          \* Entity -> [pos, vel, rot, mass, max_speed, max_force]
    settings,       \* the BoidSettings resource
    grid_settings,  \* the GridSettings resource
    mouse_pos,      \* the MouseWorldPosition resource: None or a point
    delta,          \* Time::delta_secs() of the running frame, in 1/TimeDen s
    boid_data,      \* boid_movement_system's snapshot (Entity -> [pos, vel])
    pending,        \* entities the running system's loop has still to visit
    pc,             \* the system of the Update chain that runs next
    ticks,          \* frames completed
    args,           \* the arguments of a function applied on its own
    ret             \* its result

vars == <<boids, settings, grid_settings, mouse_pos, delta, boid_data,
          pending, pc, ticks, args, ret>>

(***************************************************************************)
(* Bounds and resolution of the model.                                     *)
(***************************************************************************)
Scale == 10
One == 100 * Scale
TimeDen == 20
MaxTicks == 2

None == [none |-> TRUE]

(***************************************************************************)
(* Vec2 (glam), in fixed point.                                            *)
(***************************************************************************)
Vec2(x, y) == [x |-> x, y |-> y]

ZERO == Vec2(0, 0)

\* A world-space vector given in whole world units.
W(x, y) == Vec2(x * Scale, y * Scale)

Add(a, b) == Vec2(a.x + b.x, a.y + b.y)

Sub(a, b) == Vec2(a.x - b.x, a.y - b.y)

\* Division rounding toward zero.
TruncDiv(a, b) == IF a >= 0 THEN a \div b ELSE -((-a) \div b)

\* v * (num / den) for a scalar num / den.
MulFrac(v, num, den) == Vec2(TruncDiv(v.x * num, den), TruncDiv(v.y * num, den))

dot(a, b) == a.x * b.x + a.y * b.y

length_squared(v) == dot(v, v)

RECURSIVE SqrtSearch(_, _, _)
\* The largest r in lo..hi with r * r <= n.
SqrtSearch(n, lo, hi) ==
    IF lo >= hi THEN lo
    ELSE LET mid == (lo + hi + 1) \div 2
         IN  IF mid * mid <= n THEN SqrtSearch(n, mid, hi)
             ELSE SqrtSearch(n, lo, mid - 1)

FloorSqrt(n) == SqrtSearch(n, 0, 46340)

CeilSqrt(n) == LET r == FloorSqrt(n) IN IF r * r = n THEN r ELSE r + 1

\* Vec2::length, rounded up.
length(v) == CeilSqrt(length_squared(v))

\* Vec2::normalize_or_zero: the unit vector (scale One) of v, or ZERO.
normalize_or_zero(v) ==
    IF length_squared(v) = 0 THEN ZERO ELSE MulFrac(v, One, length(v))

\* Vec2::clamp_length_max: v if |v| <= max, else v scaled to length max.
clamp_length_max(v, max) ==
    IF length_squared(v) > max * max THEN MulFrac(v, max, length(v)) ELSE v

(***************************************************************************)
(* f32::acos, in milliradians, of a cosine of scale One.  The table lists  *)
(* cosines (per mille) and their angles; an argument between two entries   *)
(* gets the larger angle, so that acos(c) <= a decides cos(a) <= c exactly *)
(* for every angle a of the table.  Arguments stay within -One..One here:  *)
(* the fixed point never rounds a unit vector above length One.            *)
(***************************************************************************)
AcosTable ==
    << <<1000, 0>>, <<966, 262>>, <<866, 524>>, <<707, 785>>, <<500, 1047>>,
       <<259, 1309>>, <<0, 1571>>, <<-259, 1833>>, <<-500, 2094>>,
       <<-703, 2350>>, <<-707, 2356>>, <<-866, 2618>>, <<-966, 2880>>,
       <<-1000, 3142>> >>

acos(c) ==
    LET ok == {i \in 1..Len(AcosTable) : TruncDiv(AcosTable[i][1] * One, 1000) <= c}
        first == CHOOSE i \in ok : \A j \in ok : i <= j
    IN  AcosTable[first][2]

\* cos of two unit vectors (scale One), at scale One.
UnitDot(a, b) == TruncDiv(dot(a, b), One)

(***************************************************************************)
(* Program constants (globals.rs, main.rs), in world units.                *)
(***************************************************************************)
GRID_HEIGHT == 700
GRID_WIDTH == 700
BOID_MASS == 1
BOID_MAX_SPEED == 100
BOID_MAX_FORCE == 1000
border_distance == 50
repulsion_strength == 200
InitialSpeed == 80

\* impl Default for Boid, with the Transform and Velocity it is spawned with.
Boid(pos, vel) ==
    [pos |-> pos, vel |-> vel, rot |-> ZERO, mass |-> BOID_MASS,
     max_speed |-> BOID_MAX_SPEED * Scale, max_force |-> BOID_MAX_FORCE * Scale]

\* BoidSettings: radii in world units, weights in tenths, view angle in mrad.
BoidSettings(sr, ar, cr, sw, aw, cw, va, mw, mr) ==
    [separation_radius |-> sr * Scale, alignment_radius |-> ar * Scale,
     cohesion_radius |-> cr * Scale,
     separation_weight |-> TruncDiv(sw * One, 10),
     alignment_weight |-> TruncDiv(aw * One, 10),
     cohesion_weight |-> TruncDiv(cw * One, 10),
     view_angle |-> va,
     mouse_attraction_weight |-> TruncDiv(mw * One, 10),
     mouse_arrival_radius |-> mr * Scale]

\* impl Default for BoidSettings.
DefaultBoidSettings == BoidSettings(20, 80, 120, 25, 18, 10, 4700, 1, 30)

GridSettings(w, h) == [width |-> w * Scale, height |-> h * Scale]

\* impl Default for GridSettings.
DefaultGridSettings == GridSettings(GRID_WIDTH, GRID_HEIGHT)

(***************************************************************************)
(* is_in_view and the neighbour lists.                                     *)
(***************************************************************************)
\* is_in_view with the direction taken from the other boid to the observer.
is_in_view_reversed(boid_pos, boid_dir, other_pos, view_angle) ==
    LET to_other == normalize_or_zero(Sub(boid_pos, other_pos))
        angle == acos(UnitDot(boid_dir, to_other))
    IN  angle <= view_angle \div 2

\* is_in_view with the cone's edge left out.
is_in_view_strict(boid_pos, boid_dir, other_pos, view_angle) ==
    LET to_other == normalize_or_zero(Sub(other_pos, boid_pos))
        angle == acos(UnitDot(boid_dir, to_other))
    IN  angle < view_angle \div 2

is_in_view(boid_pos, boid_dir, other_pos, view_angle) ==
    LET to_other == normalize_or_zero(Sub(other_pos, boid_pos))
        angle == acos(UnitDot(boid_dir, to_other))
    IN  angle <= view_angle \div 2

\* The radius test with the radius itself let in.
DistanceLessOrEqual(pos, other_pos, radius) ==
    length_squared(Sub(pos, other_pos)) <= radius * radius

\* pos.distance(other_pos) < radius, decided on the squares.
DistanceLess(pos, other_pos, radius) ==
    length_squared(Sub(pos, other_pos)) < radius * radius

Push(list, cond, item) == IF cond THEN Append(list, item) ELSE list

RECURSIVE ScanNeighbors(_, _, _, _, _, _, _)
\* The loop over boid_data, from entry k on, with the lists built so far.
ScanNeighbors(entity, pos, direction, data, s, k, neighbors) ==
    IF k > Len(data) THEN neighbors
    ELSE LET other == data[k]
         IN  IF entity = k \/ ~is_in_view(pos, direction, other.pos, s.view_angle)
             THEN ScanNeighbors(entity, pos, direction, data, s, k + 1, neighbors)
             ELSE ScanNeighbors(entity, pos, direction, data, s, k + 1,
                    [separation |-> Push(neighbors.separation,
                        DistanceLess(pos, other.pos, s.separation_radius), other),
                     alignment |-> Push(neighbors.alignment,
                        DistanceLess(pos, other.pos, s.alignment_radius), other),
                     cohesion |-> Push(neighbors.cohesion,
                        DistanceLess(pos, other.pos, s.cohesion_radius), other)])

\* struct Neighbors of the boid `entity` at pos, heading along direction.
Neighbors(entity, pos, direction, data, s) ==
    ScanNeighbors(entity, pos, direction, data, s, 1,
                  [separation |-> <<>>, alignment |-> <<>>, cohesion |-> <<>>])

(***************************************************************************)
(* The steering forces.  The three base forces are unit vectors or ZERO.   *)
(***************************************************************************)
RECURSIVE SumPos(_)
SumPos(list) == IF list = <<>> THEN ZERO ELSE Add(Head(list).pos, SumPos(Tail(list)))

RECURSIVE SumVel(_)
SumVel(list) == IF list = <<>> THEN ZERO ELSE Add(Head(list).vel, SumVel(Tail(list)))

RECURSIVE FoldSeparation(_, _)
\* The fold of calculate_separation: diff.normalize() / distance per neighbour
\* at a distance above zero (a unit vector over a length, kept at scale One).
FoldSeparation(boid_pos, list) ==
    IF list = <<>> THEN ZERO
    ELSE LET diff == Sub(boid_pos, Head(list).pos)
             rest == FoldSeparation(boid_pos, Tail(list))
         IN  IF length_squared(diff) > 0
             THEN Add(rest, MulFrac(normalize_or_zero(diff), Scale, length(diff)))
             ELSE rest

calculate_separation(boid_pos, neighbors) ==
    IF neighbors = <<>> THEN ZERO
    ELSE normalize_or_zero(FoldSeparation(boid_pos, neighbors))

calculate_alignment(boid_velocity, neighbors) ==
    IF neighbors = <<>> THEN ZERO
    ELSE LET avg_velocity == MulFrac(SumVel(neighbors), 1, Len(neighbors))
         IN  normalize_or_zero(Sub(avg_velocity, boid_velocity))

\* calculate_cohesion without its test for an empty list: the centre of no
\* neighbour is the origin.
calculate_cohesion_unguarded(boid_pos, neighbors) ==
    LET count == IF neighbors = <<>> THEN 1 ELSE Len(neighbors)
        center == MulFrac(SumPos(neighbors), 1, count)
    IN  normalize_or_zero(Sub(center, boid_pos))

calculate_cohesion(boid_pos, neighbors) ==
    IF neighbors = <<>> THEN ZERO
    ELSE LET center == MulFrac(SumPos(neighbors), 1, Len(neighbors))
         IN  normalize_or_zero(Sub(center, boid_pos))

\* if distance < arrival_radius { max_speed * (distance / arrival_radius).sqrt() }
\* else { max_speed }
desired_speed(to_target, max_speed, arrival_radius) ==
    IF length_squared(to_target) < arrival_radius * arrival_radius
    THEN LET normalized_distance ==
                 TruncDiv(FloorSqrt(length_squared(to_target)) * One, arrival_radius)
         IN  TruncDiv(max_speed * FloorSqrt(normalized_distance * One), One)
    ELSE max_speed

\* The multiplier doubled from arrival_radius on, not only above it.
force_multiplier_from_radius(to_target, arrival_radius) ==
    IF length_squared(to_target) >= arrival_radius * arrival_radius THEN 2 ELSE 1

\* if distance > arrival_radius { 2.0 } else { 1.0 }
force_multiplier(to_target, arrival_radius) ==
    IF length_squared(to_target) > arrival_radius * arrival_radius THEN 2 ELSE 1

calculate_seek_with_arrival(current_pos, current_vel, target_pos, max_speed, max_force, arrival_radius) ==
    LET to_target == Sub(target_pos, current_pos)
        distance == length(to_target)
    IN  IF 1000 * distance < Scale THEN ZERO
        ELSE LET desired_velocity ==
                     MulFrac(normalize_or_zero(to_target),
                             desired_speed(to_target, max_speed, arrival_radius), One)
                 steering == Sub(desired_velocity, current_vel)
             IN  clamp_length_max(steering,
                     max_force * force_multiplier(to_target, arrival_radius))

\* A base force (unit vector, scale One) times its weight (scale One): a force.
Weighted(unit, weight) == MulFrac(MulFrac(unit, weight, One), Scale, One)

(***************************************************************************)
(* boid_movement_system.                                                   *)
(***************************************************************************)
\* The snapshot: (entity, position, velocity) of every boid, in query order.
CollectBoidData(b) == [e \in 1..Len(b) |-> [pos |-> b[e].pos, vel |-> b[e].vel]]

\* The inner loop reading the components as they are now.
OtherBoidsLive(snapshot, live) == live

\* What the inner loop iterates over: the snapshot, not the live components.
OtherBoids(snapshot, live) == snapshot

\* The goal-seeking force of one boid, ZERO without a mouse position.
mouse_seeking(boid, mouse, s) ==
    IF mouse = None THEN ZERO
    ELSE MulFrac(calculate_seek_with_arrival(boid.pos, boid.vel, mouse.position,
                     boid.max_speed, boid.max_force, s.mouse_arrival_radius),
                 s.mouse_attraction_weight, One)

\* separation + alignment + cohesion + mouse_seeking of one boid.
steering_force(entity, boid, data, s, mouse) ==
    LET neighbors == Neighbors(entity, boid.pos, normalize_or_zero(boid.vel), data, s)
    IN  Add(Add(Weighted(calculate_separation(boid.pos, neighbors.separation),
                         s.separation_weight),
                Weighted(calculate_alignment(boid.vel, neighbors.alignment),
                         s.alignment_weight)),
            Add(Weighted(calculate_cohesion(boid.pos, neighbors.cohesion),
                         s.cohesion_weight),
                mouse_seeking(boid, mouse, s)))

\* The integrator without its clamp to max_speed.
integrate_velocity_unclamped(boid, force, dt) ==
    LET clamped_force == clamp_length_max(force, boid.max_force)
        acceleration == MulFrac(clamped_force, 1, boid.mass)
    IN  Add(boid.vel, MulFrac(acceleration, dt, TimeDen))

\* velocity += acceleration * dt; velocity = velocity.clamp_length_max(max_speed)
integrate_velocity(boid, force, dt) ==
    LET clamped_force == clamp_length_max(force, boid.max_force)
        acceleration == MulFrac(clamped_force, 1, boid.mass)
    IN  clamp_length_max(Add(boid.vel, MulFrac(acceleration, dt, TimeDen)),
                         boid.max_speed)

\* transform.translation += velocity * dt, with the velocity just stored.
integrate_position(pos, velocity, dt) == Add(pos, MulFrac(velocity, dt, TimeDen))

\* One iteration of the loop over boids.iter_mut(): the boid as it is left.
\* rot holds the velocity whose atan2, less FRAC_PI_2, is the rotation; ZERO
\* is the rotation a boid is spawned with.
MoveBoid(entity, boid, data, s, mouse, dt) ==
    LET velocity == integrate_velocity(boid, steering_force(entity, boid, data, s, mouse), dt)
    IN  [boid EXCEPT !.vel = velocity,
                     !.pos = integrate_position(boid.pos, velocity, dt),
                     !.rot = IF length_squared(velocity) > 0 THEN velocity ELSE boid.rot]

(***************************************************************************)
(* border_repulsion_system.                                                *)
(***************************************************************************)
\* (1.0 - dist / border_distance) * repulsion_strength, within border_distance.
edge_strength(dist) ==
    IF dist < border_distance * Scale
    THEN TruncDiv((border_distance * Scale - dist) * repulsion_strength, border_distance)
    ELSE 0

dist_right(pos, g) == g.width \div 2 - pos.x

dist_left(pos, g) == pos.x + g.width \div 2

dist_top(pos, g) == g.height \div 2 - pos.y

dist_bottom(pos, g) == pos.y + g.height \div 2

\* The right edge pushing outward.
repulsion_right_outward(pos, g) == Vec2(edge_strength(dist_right(pos, g)), 0)

\* What each edge adds to repulsion_force.
repulsion_right(pos, g) == Vec2(-edge_strength(dist_right(pos, g)), 0)

repulsion_left(pos, g) == Vec2(edge_strength(dist_left(pos, g)), 0)

repulsion_top(pos, g) == Vec2(0, -edge_strength(dist_top(pos, g)))

repulsion_bottom(pos, g) == Vec2(0, edge_strength(dist_bottom(pos, g)))

repulsion_force(pos, g) ==
    Add(Add(repulsion_right(pos, g), repulsion_left(pos, g)),
        Add(repulsion_top(pos, g), repulsion_bottom(pos, g)))

\* The border system of the wrap policy beside the impulse: a boid past the
\* right edge is set on the left edge.
RepelBoidWrap(boid, g, dt) ==
    [boid EXCEPT !.vel = Add(boid.vel, MulFrac(repulsion_force(boid.pos, g), dt, TimeDen)),
                 !.pos = IF boid.pos.x > g.width \div 2
                         THEN Vec2(-(g.width \div 2), boid.pos.y) ELSE boid.pos]

\* One iteration of the loop: velocity.0 += repulsion_force * dt.
RepelBoid(boid, g, dt) ==
    [boid EXCEPT !.vel = Add(boid.vel, MulFrac(repulsion_force(boid.pos, g), dt, TimeDen))]

(***************************************************************************)
(* The inputs the model draws.                                             *)
(***************************************************************************)
\* generate_boids: a position inside the grid, a velocity of length 80.  Boid 2
\* starts 20 or 10 units from boid 1; boid 3 starts five units from the right
\* edge, far from both, or 100 units from boid 1.
InitialBoids ==
    { << Boid(W(0, 0), W(InitialSpeed, 0)), Boid(p2, W(0, -InitialSpeed)), Boid(p3, v3) >> :
        p2 \in {W(12, 16), W(10, 0)},
        p3 \in {W(345, 0), W(-60, 80)},
        v3 \in {W(InitialSpeed, 0), W(-InitialSpeed, 0)} }

\* What the sliders of ui_system can leave in BoidSettings and GridSettings.
UiChoices ==
    { <<DefaultBoidSettings, DefaultGridSettings>>,
      <<BoidSettings(100, 50, 20, 10, 0, 50, 4700, 20, 300), GridSettings(200, 1000)>> }

\* Time::delta_secs(), in 1/TimeDen s: 0 and 0.25 s.
DeltaChoices == {0, 5}

\* The cursor: outside the window, not convertible, or at a world point.
CursorChoices == {"outside", "unconverted", "inside"}

CursorWorldPos == W(100, 0)

(***************************************************************************)
(* The systems.  Update runs update_mouse_position, (update_mouse_indicator,*)
(* which moves only the indicator entities,) boid_movement_system and      *)
(* border_repulsion_system, chained; ui_system edits the two resources     *)
(* between frames.                                                         *)
(***************************************************************************)
Init ==
    /\ boids \in InitialBoids
    /\ settings = DefaultBoidSettings
    /\ grid_settings = DefaultGridSettings
    /\ mouse_pos = None
    /\ delta = 0
    /\ boid_data = <<>>
    /\ pending = {}
    /\ pc = "update_mouse_position"
    /\ ticks = 0
    /\ args = None
    /\ ret = None

ui_system ==
    /\ pc = "update_mouse_position"
    /\ \E ui \in UiChoices :
          /\ settings' = ui[1]
          /\ grid_settings' = ui[2]
    /\ UNCHANGED <<boids, mouse_pos, delta, boid_data, pending, pc, ticks, args, ret>>

\* The frame starts: Time takes the frame's delta, then update_mouse_position.
update_mouse_position ==
    /\ pc = "update_mouse_position"
    /\ ticks < MaxTicks
    /\ \E d \in DeltaChoices : delta' = d
    /\ \E cursor \in CursorChoices :
          mouse_pos' = CASE cursor = "inside" -> [position |-> CursorWorldPos]
                         [] cursor = "outside" -> None
                         [] OTHER -> mouse_pos
    /\ pc' = "boid_movement_system"
    /\ UNCHANGED <<boids, settings, grid_settings, boid_data, pending, ticks, args, ret>>

\* boid_movement_system, lines 137-140: the snapshot.
boid_movement_collect ==
    /\ pc = "boid_movement_system"
    /\ boid_data' = CollectBoidData(boids)
    /\ pending' = DOMAIN boids
    /\ pc' = "boid_movement_loop"
    /\ UNCHANGED <<boids, settings, grid_settings, mouse_pos, delta, ticks, args, ret>>

\* boid_movement_system, lines 142-212: one iteration, for the boids in any order.
boid_movement_step ==
    /\ pc = "boid_movement_loop"
    /\ \E entity \in pending :
          /\ boids' = [boids EXCEPT ![entity] =
                          MoveBoid(entity, boids[entity],
                                   OtherBoids(boid_data, CollectBoidData(boids)),
                                   settings, mouse_pos, delta)]
          /\ pending' = pending \ {entity}
          /\ pc' = IF pending' = {} THEN "border_repulsion_system" ELSE pc
    /\ UNCHANGED <<settings, grid_settings, mouse_pos, delta, boid_data, ticks, args, ret>>

border_repulsion_system ==
    /\ pc = "border_repulsion_system"
    /\ boids' = [e \in DOMAIN boids |-> RepelBoid(boids[e], grid_settings, delta)]
    /\ pc' = "update_mouse_position"
    /\ ticks' = ticks + 1
    /\ UNCHANGED <<settings, grid_settings, mouse_pos, delta, boid_data, pending, args, ret>>

Next ==
    \/ ui_system
    \/ update_mouse_position
    \/ boid_movement_collect
    \/ boid_movement_step
    \/ border_repulsion_system

Spec == Init /\ [][Next]_vars

(***************************************************************************)
(* is_in_view applied on its own, to two agents a and b at any view angle. *)
(***************************************************************************)
FRAC_PI_2 == 1571

ViewAngles == {2094, 2 * FRAC_PI_2, 4700, 4 * FRAC_PI_2}

ViewArgs ==
    [a : [pos : {W(0, 0)},
          vel : {ZERO, W(InitialSpeed, 0), W(-InitialSpeed, 0), W(48, 64), W(0, -InitialSpeed)}],
     b : [pos : {W(0, 0), W(10, 0), W(-10, 0), W(12, 16), W(-30, 30), W(0, 40), W(-9, -12)},
          vel : {ZERO, W(InitialSpeed, 0), W(-48, -64)}],
     view_angle : ViewAngles]

Idle(p) ==
    /\ boids = <<>>
    /\ settings = DefaultBoidSettings
    /\ grid_settings = DefaultGridSettings
    /\ mouse_pos = None
    /\ delta = 0
    /\ boid_data = <<>>
    /\ pending = {}
    /\ pc = p
    /\ ticks = 0
    /\ ret = None

InitView == Idle("is_in_view") /\ args \in ViewArgs

\* a looks at b and b looks at a, each along its own heading.
apply_is_in_view ==
    /\ pc = "is_in_view"
    /\ ret' = [a_sees_b |-> is_in_view(args.a.pos, normalize_or_zero(args.a.vel),
                                       args.b.pos, args.view_angle),
               b_sees_a |-> is_in_view(args.b.pos, normalize_or_zero(args.b.vel),
                                       args.a.pos, args.view_angle)]
    /\ pc' = "returned"
    /\ UNCHANGED <<boids, settings, grid_settings, mouse_pos, delta, boid_data,
                   pending, ticks, args>>

SpecView == InitView /\ [][apply_is_in_view]_vars

(***************************************************************************)
(* calculate_seek_with_arrival applied on its own.                         *)
(***************************************************************************)
SeekArgs ==
    [current_pos : {W(0, 0)},
     current_vel : {ZERO, W(InitialSpeed, 0), W(-48, -64), W(0, 130)},
     target_pos : {W(0, 0), Vec2(1, 0), W(6, 8), W(18, 24), W(180, 240), W(200, 0)},
     max_speed : {BOID_MAX_SPEED * Scale},
     max_force : {BOID_MAX_FORCE * Scale, 50 * Scale},
     arrival_radius : {30 * Scale, 300 * Scale}]

InitSeek == Idle("calculate_seek_with_arrival") /\ args \in SeekArgs

apply_calculate_seek_with_arrival ==
    /\ pc = "calculate_seek_with_arrival"
    /\ ret' = calculate_seek_with_arrival(args.current_pos, args.current_vel,
                  args.target_pos, args.max_speed, args.max_force, args.arrival_radius)
    /\ pc' = "returned"
    /\ UNCHANGED <<boids, settings, grid_settings, mouse_pos, delta, boid_data,
                   pending, ticks, args>>

SpecSeek == InitSeek /\ [][apply_calculate_seek_with_arrival]_vars

(***************************************************************************)
(* The claims.                                                             *)
(***************************************************************************)
Entities == DOMAIN boids

\* The movement loop has visited entity e in the running frame.
Moved(e) ==
    /\ pc \in {"boid_movement_loop", "border_repulsion_system"}
    /\ e \in Entities \ pending

\* A frame has just ended: both systems have run on every boid.
TickDone == pc = "update_mouse_position" /\ ticks > 0

\* Boid e as the frame's snapshot has it.
AtStart(e) == [boids[e] EXCEPT !.pos = boid_data[e].pos, !.vel = boid_data[e].vel]

\* C1: after every tick (boid_movement_system, then border_repulsion_system)
\* every boid's stored velocity has magnitude at most its max_speed.
C1_SpeedBoundedAfterTick ==
    pc = "update_mouse_position" =>
        \A e \in Entities :
            length_squared(boids[e].vel) <= boids[e].max_speed * boids[e].max_speed

\* C2: every boid the movement loop has visited holds the position and velocity
\* computed from the snapshot taken at the start of the tick, whatever the order
\* in which the boids were visited and whatever the others hold by now.
C2_ReadsFromSnapshot ==
    \A e \in Entities :
        Moved(e) =>
            LET expected == MoveBoid(e, AtStart(e), boid_data, settings, mouse_pos, delta)
            IN  boids[e].pos = expected.pos /\ boids[e].vel = expected.vel

\* C2's case: the loop is over and a boid has in its cohesion list a boid that
\* moved during this tick.
C2_Witness ==
    /\ pc = "border_repulsion_system"
    /\ \E a \in Entities, b \in Entities :
          /\ a # b
          /\ boids[b].pos # boid_data[b].pos
          /\ \E i \in 1..Len(Neighbors(a, boid_data[a].pos,
                     normalize_or_zero(boid_data[a].vel), boid_data, settings).cohesion) :
                Neighbors(a, boid_data[a].pos, normalize_or_zero(boid_data[a].vel),
                          boid_data, settings).cohesion[i] = boid_data[b]

Range(list) == {list[i] : i \in 1..Len(list)}

\* The entries of the snapshot that boid a, seen from the snapshot, must list
\* for a radius: another entity, visible to a, strictly nearer than the radius.
Listed(a, radius) ==
    {b \in Entities :
        /\ b # a
        /\ is_in_view(boid_data[a].pos, normalize_or_zero(boid_data[a].vel),
                      boid_data[b].pos, settings.view_angle)
        /\ length_squared(Sub(boid_data[a].pos, boid_data[b].pos)) < radius * radius}

ListIs(list, members) ==
    /\ Len(list) = Cardinality(members)
    /\ Range(list) = {boid_data[b] : b \in members}

NeighborsOf(a) ==
    Neighbors(a, boid_data[a].pos, normalize_or_zero(boid_data[a].vel), boid_data, settings)

\* C3: each of a boid's three lists holds exactly the snapshot entries of the
\* other boids that are visible to it and strictly nearer than that list's own
\* radius; the three lists are decided independently of one another.
C3_ListMembership ==
    pc = "boid_movement_loop" =>
        \A a \in Entities :
            LET neighbors == NeighborsOf(a)
            IN  /\ ListIs(neighbors.separation, Listed(a, settings.separation_radius))
                /\ ListIs(neighbors.alignment, Listed(a, settings.alignment_radius))
                /\ ListIs(neighbors.cohesion, Listed(a, settings.cohesion_radius))

\* C3's case: a visible boid at a distance equal to the separation radius is in
\* the alignment list and not in the separation list.
C3_Witness ==
    /\ pc = "boid_movement_loop"
    /\ \E a \in Entities, b \in Entities :
          /\ a # b
          /\ length_squared(Sub(boid_data[a].pos, boid_data[b].pos))
                = settings.separation_radius * settings.separation_radius
          /\ boid_data[b] \in Range(NeighborsOf(a).alignment)
          /\ boid_data[b] \notin Range(NeighborsOf(a).separation)

\* C6: a base force over an empty list is the zero vector, the goal-seeking
\* force without a goal point is the zero vector, and a boid with three empty
\* lists and no goal point leaves the movement loop with the velocity it
\* entered with, clamped to max_speed.
C6_EmptyListsNoForce ==
    \A e \in Entities :
        /\ calculate_separation(boids[e].pos, <<>>) = ZERO
        /\ calculate_alignment(boids[e].vel, <<>>) = ZERO
        /\ calculate_cohesion(boids[e].pos, <<>>) = ZERO
        /\ mouse_seeking(boids[e], None, settings) = ZERO
        /\ (/\ Moved(e)
            /\ mouse_pos = None
            /\ NeighborsOf(e) = [separation |-> <<>>, alignment |-> <<>>, cohesion |-> <<>>])
           => boids[e].vel = clamp_length_max(boid_data[e].vel, boids[e].max_speed)

\* C6's case: with time elapsing and non-zero weights, a boid that moved had
\* three empty lists and no goal point.
C6_Witness ==
    \E e \in Entities :
        /\ Moved(e)
        /\ delta > 0
        /\ mouse_pos = None
        /\ settings.cohesion_weight > 0
        /\ NeighborsOf(e) = [separation |-> <<>>, alignment |-> <<>>, cohesion |-> <<>>]

Edges == {"right", "left", "top", "bottom"}

\* The distance from pos to an edge (negative past it), the force that edge adds
\* and the unit vector pointing from that edge into the grid.
EdgeDist(edge, pos, g) ==
    CASE edge = "right" -> dist_right(pos, g)
      [] edge = "left" -> dist_left(pos, g)
      [] edge = "top" -> dist_top(pos, g)
      [] OTHER -> dist_bottom(pos, g)

EdgeForce(edge, pos, g) ==
    CASE edge = "right" -> repulsion_right(pos, g)
      [] edge = "left" -> repulsion_left(pos, g)
      [] edge = "top" -> repulsion_top(pos, g)
      [] OTHER -> repulsion_bottom(pos, g)

Inward(edge) ==
    CASE edge = "right" -> Vec2(-1, 0)
      [] edge = "left" -> Vec2(1, 0)
      [] edge = "top" -> Vec2(0, -1)
      [] OTHER -> Vec2(0, 1)

\* The force of an edge is m times the inward unit vector, for an m >= 0.
InwardOfMagnitude(edge, force, m) ==
    m >= 0 /\ force = Vec2(m * Inward(edge).x, m * Inward(edge).y)

\* (1 - dist_to_edge / border_distance) * repulsion_strength
LinearStrength(dist) ==
    TruncDiv((border_distance * Scale - dist) * repulsion_strength, border_distance)

\* C7 as claimed: wherever border_repulsion_system finds a boid, past the edge
\* included, each edge's force points inward, is zero from border_distance on,
\* and otherwise has the magnitude (1 - dist / border_distance) *
\* repulsion_strength, which lies between 0 and repulsion_strength.
C7_StrengthWithinRange ==
    TickDone =>
        \A e \in Entities, edge \in Edges :
            LET dist == EdgeDist(edge, boids[e].pos, grid_settings)
                force == EdgeForce(edge, boids[e].pos, grid_settings)
            IN  IF dist >= border_distance * Scale
                THEN force = ZERO
                ELSE /\ InwardOfMagnitude(edge, force, LinearStrength(dist))
                     /\ LinearStrength(dist) <= repulsion_strength * Scale

\* C7 as amended: each edge's force points inward, is zero from border_distance
\* on, and otherwise has the magnitude (1 - dist / border_distance) *
\* repulsion_strength, which lies between 0 and repulsion_strength while the
\* boid is on the inner side of the edge and exceeds repulsion_strength once
\* the boid is past the edge.
C7_StrengthLinearInward ==
    \A e \in Entities, edge \in Edges :
        LET dist == EdgeDist(edge, boids[e].pos, grid_settings)
            force == EdgeForce(edge, boids[e].pos, grid_settings)
        IN  IF dist >= border_distance * Scale
            THEN force = ZERO
            ELSE /\ InwardOfMagnitude(edge, force, LinearStrength(dist))
                 /\ LinearStrength(dist) > 0
                 /\ dist >= 0 <=> LinearStrength(dist) <= repulsion_strength * Scale

\* C7's case: border_repulsion_system has run on a boid that the integrator
\* had carried past the right edge, where the edge pushes with more than
\* repulsion_strength.
C7_Witness ==
    /\ TickDone
    /\ \E e \in Entities :
          /\ dist_right(boid_data[e].pos, grid_settings) >= 0
          /\ dist_right(boids[e].pos, grid_settings) < 0
          /\ -repulsion_right(boids[e].pos, grid_settings).x > repulsion_strength * Scale

\* C8: border_repulsion_system writes nothing of a boid but its velocity, and a
\* position changes only in the movement loop, by velocity * delta_time of
\* the velocity the loop has just stored: no step moves a boid to another edge.
C8_OnlyIntegratorMoves ==
    [][\A e \in Entities :
          /\ pc = "border_repulsion_system" =>
                /\ boids'[e].pos = boids[e].pos
                /\ boids'[e].rot = boids[e].rot
                /\ boids'[e].mass = boids[e].mass
                /\ boids'[e].max_speed = boids[e].max_speed
                /\ boids'[e].max_force = boids[e].max_force
          /\ boids'[e].pos # boids[e].pos =>
                /\ pc = "boid_movement_loop"
                /\ boids'[e].pos = Add(boids[e].pos, MulFrac(boids'[e].vel, delta, TimeDen))
      ]_vars

\* C8's case: a tick has ended with a boid past the right edge, left where the
\* integrator carried it.
C8_Witness ==
    /\ TickDone
    /\ \E e \in Entities :
          /\ boid_data[e].pos.x <= grid_settings.width \div 2
          /\ boids[e].pos.x > grid_settings.width \div 2

\* C10: whatever velocity a boid carried into the tick, the velocity the
\* movement loop stores and advances the position with is clamped to
\* max_speed, so that the position moves by at most max_speed * delta_time.
C10_StepBoundedByMaxSpeed ==
    \A e \in Entities :
        Moved(e) =>
            LET step == Sub(boids[e].pos, boid_data[e].pos)
            IN  /\ length_squared(boids[e].vel) <= boids[e].max_speed * boids[e].max_speed
                /\ step = MulFrac(boids[e].vel, delta, TimeDen)
                /\ TimeDen * TimeDen * length_squared(step)
                      <= (boids[e].max_speed * delta) * (boids[e].max_speed * delta)

\* C10's case: a boid entered the tick faster than max_speed (the previous
\* tick's border impulse) and has been moved.
C10_Witness ==
    \E e \in Entities :
        /\ Moved(e)
        /\ delta > 0
        /\ length_squared(boid_data[e].vel) > boids[e].max_speed * boids[e].max_speed
        /\ boids[e].pos # boid_data[e].pos

RECURSIVE Gcd(_, _)
Gcd(m, n) == IF n = 0 THEN m ELSE Gcd(n, m % n)

Abs(n) == IF n >= 0 THEN n ELSE -n

\* The shortest lattice vector along a non-zero v.
Shrink(v) == LET g == Gcd(Abs(v.x), Abs(v.y)) IN Vec2(v.x \div g, v.y \div g)

\* The cosine, per mille, of an angle the table lists.
CosOf(angle) ==
    LET i == CHOOSE i \in 1..Len(AcosTable) : AcosTable[i][2] = angle
    IN  AcosTable[i][1]

\* The angle between the non-zero vectors v and d is at most `half`, decided
\* on the lattice without a rounding: cos(v, d) >= cos(half), on the squares.
AngleAtMost(v, d, half) ==
    LET u == Shrink(v)
        w == Shrink(d)
        p == dot(u, w)
        n == length_squared(u) * length_squared(w)
        c == CosOf(half)
    IN  CASE p >= 0 /\ c <= 0 -> TRUE
          [] p < 0 /\ c >= 0 -> FALSE
          [] p >= 0 /\ c > 0 -> p * p * 1000000 >= c * c * n
          [] OTHER -> p * p * 1000000 <= c * c * n

\* C4's example: agents at (0,0) and (10,0), both moving along +x, view angle pi.
C4_Example ==
    /\ args.a = [pos |-> W(0, 0), vel |-> W(InitialSpeed, 0)]
    /\ args.b = [pos |-> W(10, 0), vel |-> W(InitialSpeed, 0)]
    /\ args.view_angle = 2 * FRAC_PI_2

C9_ZeroHeading ==
    pc = "returned" =>
        /\ args.a.vel = ZERO =>
              /\ normalize_or_zero(args.a.vel) = ZERO
              /\ UnitDot(normalize_or_zero(args.a.vel),
                         normalize_or_zero(Sub(args.b.pos, args.a.pos))) = 0
              /\ acos(0) = FRAC_PI_2
              /\ ret.a_sees_b <=> args.view_angle \div 2 >= FRAC_PI_2
        /\ args.b.vel = ZERO =>
              (ret.b_sees_a <=> args.view_angle \div 2 >= FRAC_PI_2)
        /\ args.a.pos = args.b.pos =>
              /\ ret.a_sees_b <=> args.view_angle \div 2 >= FRAC_PI_2
              /\ ret.b_sees_a <=> args.view_angle \div 2 >= FRAC_PI_2

\* C9's case: an observer at rest, with a view angle of pi, sees an agent that
\* an observer heading along +x from the same place would have behind it.
C9_Witness ==
    /\ pc = "returned"
    /\ args.a.vel = ZERO
    /\ args.b.pos = W(-10, 0)
    /\ args.view_angle = 2 * FRAC_PI_2
    /\ ret.a_sees_b

\* C5: the goal-seeking force is the zero vector below a distance of 0.001 and
\* otherwise has magnitude at most max_force * m, with m = 2 at a distance
\* above arrival_radius and m = 1 at a distance of arrival_radius or less; at
\* a distance of exactly arrival_radius the desired speed is max_speed.
C5_SeekForceBound ==
    pc = "returned" =>
        LET d2 == length_squared(Sub(args.target_pos, args.current_pos))
            r2 == args.arrival_radius * args.arrival_radius
            m == IF d2 > r2 THEN 2 ELSE 1
        IN  IF d2 < Scale * Scale /\ 1000000 * d2 < Scale * Scale
            THEN ret = ZERO
            ELSE /\ length_squared(ret) <= (args.max_force * m) * (args.max_force * m)
                 /\ d2 = r2 => desired_speed(Sub(args.target_pos, args.current_pos),
                                   args.max_speed, args.arrival_radius) = args.max_speed

\* C5's case: at a distance of exactly arrival_radius, a steering longer than
\* max_force came back cut to max_force.
C5_Witness ==
    /\ pc = "returned"
    /\ length_squared(Sub(args.target_pos, args.current_pos))
          = args.arrival_radius * args.arrival_radius
    /\ length_squared(Sub(MulFrac(normalize_or_zero(Sub(args.target_pos, args.current_pos)),
                                  args.max_speed, One), args.current_vel))
          > args.max_force * args.max_force
    /\ ret # ZERO
    /\ 4 * length_squared(ret) > args.max_force * args.max_force

====
